---- MODULE Spec2Model ----
(***************************************************************************)
(* Model of ignis.utils.file_monitor.FileMonitor (recursive file monitor   *)
(* built on Gio.FileMonitor) together with the file system it watches and  *)
(* the queue of Gio "changed" signals the main loop has not dispatched yet.*)
(***************************************************************************)
EXTENDS Integers, Sequences, FiniteSets, TLC

\* ------------------------------------------------------------------ bounds
MaxQueue == 1         \* Gio signals waiting in the main loop
MaxSubscribers == 2   \* handlers connected to the "changed" signal
MaxDevices == 4       \* BluetoothDevice objects created by one service

\* ------------------------------------------------------------- file system
\* the tree the model can build: D, D/a, D/a/b and the file D/a/file.txt
Root == <<"D">>
FileName == "file.txt"
Paths == {Root, <<"D", "a">>, <<"D", "a", "b">>, <<"D", "a", FileName>>}

Last(p) == p[Len(p)]
dirname(p) == SubSeq(p, 1, Len(p) - 1)
join(root, d) == Append(root, d)

\* a path names a directory when its last component is a directory name
IsDirPath(p) == Last(p) # FileName
isdir(f, p) == p \in f /\ IsDirPath(p)

IsPrefix(p, q) == Len(p) <= Len(q) /\ SubSeq(q, 1, Len(p)) = p
Under(root, p) == IsPrefix(root, p) /\ p # root

\* every entry's parent is an existing directory
WellFormedFs(f) ==
    /\ Root \in f
    /\ \A p \in f : p # Root => isdir(f, dirname(p))

\* the directory names in the order os.scandir lists them
DirNameSeq == <<"a", "b">>

\* the subdirectories of path, as os.walk lists them in dirs
subdirs(f, path) ==
    SelectSeq([i \in 1..Len(DirNameSeq) |-> join(path, DirNameSeq[i])],
              LAMBDA p : isdir(f, p))

\* a walk that stops at the first level
walk_shallow(f, path) == subdirs(f, path)

\* os.walk(path) at lines 105-108, top-down: the subdirectories of a directory,
\* then the walk of each of them
RECURSIVE walk(_, _), walk_each(_, _)
walk(f, path) == subdirs(f, path) \o walk_each(f, subdirs(f, path))
walk_each(f, ds) ==
    IF ds = <<>> THEN <<>> ELSE walk(f, Head(ds)) \o walk_each(f, Tail(ds))

\* ----------------------------------------------------------------- tables
FLAGS == [k \in {"None", "none", "watch_mounts", "send_moved",
                 "watch_hard_links", "watch_moves"} |->
            CASE k = "None" -> "NONE"
              [] k = "none" -> "NONE"
              [] k = "watch_mounts" -> "WATCH_MOUNTS"
              [] k = "send_moved" -> "SEND_MOVED"
              [] k = "watch_hard_links" -> "WATCH_HARD_LINKS"
              [] k = "watch_moves" -> "WATCH_MOVES"]

EVENT == [e \in {"CHANGED", "CHANGES_DONE_HINT", "MOVED_OUT", "DELETED",
                 "CREATED", "ATTRIBUTE_CHANGED", "PRE_UNMOUNT", "UNMOUNTED",
                 "MOVED", "RENAMED", "MOVED_IN"} |->
            CASE e = "CHANGED" -> "changed"
              [] e = "CHANGES_DONE_HINT" -> "changes_done_hint"
              [] e = "MOVED_OUT" -> "moved_out"
              [] e = "DELETED" -> "deleted"
              [] e = "CREATED" -> "created"
              [] e = "ATTRIBUTE_CHANGED" -> "attribute_changed"
              [] e = "PRE_UNMOUNT" -> "pre_unmount"
              [] e = "UNMOUNTED" -> "unmounted"
              [] e = "MOVED" -> "moved"
              [] e = "RENAMED" -> "renamed"
              [] e = "MOVED_IN" -> "moved_in"]

\* a native constant Gio may add in a later release
UnknownEvent == "OTHER"

\* ------------------------------------------------------------------ state
\* the FileMonitor objects of the process
Monitors == {1}

VARIABLES
    fs,             \* the entries that exist in the file system
    _monitor,       \* per object: state of the root Gio monitor
    _path, _flags, _callback, _recursive,
    _sub_paths,     \* per object: list of watched subdirectory paths
    _sub_monitors,  \* per object: list of Gio monitors of subdirectories
    file_monitors,  \* module-level keep-alive list
    subscribers,    \* per object: handlers connected to "changed"
    queue,          \* Gio signals not dispatched yet, oldest first
    step            \* what the step just taken did (observation only)

vars == <<fs, _monitor, _path, _flags, _callback, _recursive, _sub_paths,
          _sub_monitors, file_monitors, subscribers, queue, step>>

\* BluetoothService (services/bluetooth/service.py)
VARIABLES
    _devices,       \* dict: object path -> BluetoothDevice (numbered by creation)
    bt_created,     \* number of BluetoothDevice objects created so far
    bt_present,     \* object paths added and not removed since (client's view)
    bt_step         \* what the signal handler just run did (observation only)

bt_vars == <<_devices, bt_created, bt_present, bt_step>>

Callbacks == {"None", "returns", "raises"}
\* flag literals passed by callers: a key of FLAGS and a string that is none
FlagLiterals == {"watch_moves", "bogus"}
NativeEvents == DOMAIN EVENT \cup {UnknownEvent}

Range(s) == {s[i] : i \in 1..Len(s)}

\* a Gio.FileMonitor object: Gio.File.monitor(flags, None)
GioMonitor(path, gflags) == [path |-> path, flags |-> gflags, cancelled |-> FALSE]

\* step.before is the state of the root Gio monitor when the operation started
NoStep == [op |-> "idle", mon |-> 0, before |-> "none", path |-> <<>>, ev |-> "",
           raised |-> "none", added |-> FALSE, trace |-> <<>>]
Did(op, m) == [NoStep EXCEPT !.op = op, !.mon = m, !.before = _monitor[m]]

\* the object exists: its root Gio monitor was opened (line 93)
Exists(m) == _monitor[m] # "none"
\* __init__ returned: the caller and file_monitors hold the object
Constructed(m) == Exists(m) /\ _monitor[m] # "unowned"

\* watch 0 is the root monitor, watch i > 0 is _sub_monitors[i]
WatchPath(m, i) == IF i = 0 THEN _path[m] ELSE _sub_monitors[m][i].path
WatchLive(m, i) ==
    IF i = 0 THEN _monitor[m] \in {"live", "unowned"}
    ELSE i <= Len(_sub_monitors[m]) /\ ~_sub_monitors[m][i].cancelled
Watches(m) == {0} \cup (1..Len(_sub_monitors[m]))
LiveWatches(m) == {i \in Watches(m) : Exists(m) /\ WatchLive(m, i)}

Init ==
    /\ fs \in {f \in SUBSET Paths : WellFormedFs(f)}
    /\ _monitor = [m \in Monitors |-> "none"]
    /\ _path = [m \in Monitors |-> <<>>]
    /\ _flags = [m \in Monitors |-> "None"]
    /\ _callback = [m \in Monitors |-> "None"]
    /\ _recursive = [m \in Monitors |-> FALSE]
    /\ _sub_paths = [m \in Monitors |-> <<>>]
    /\ _sub_monitors = [m \in Monitors |-> <<>>]
    /\ file_monitors = <<>>
    /\ subscribers = [m \in Monitors |-> <<>>]
    /\ queue = <<>>
    /\ step = NoStep
    /\ _devices = <<>>
    /\ bt_created = 0
    /\ bt_present = {}
    /\ bt_step = [op |-> "idle", path |-> "", known |-> FALSE, dev |-> 0,
                  before |-> <<>>, emitted |-> <<>>]

\* ------------------------------------------------------------- operations
\* an __add_submonitor without the membership test
add_submonitor_unchecked(sp, sm, path, flags) ==
    [paths |-> Append(sp, path),
     monitors |-> Append(sm, GioMonitor(path, FLAGS[flags]))]

\* FileMonitor.__add_submonitor on the pair of lists
add_submonitor(sp, sm, path, flags) ==
    IF path \in Range(sp)
    THEN [paths |-> sp, monitors |-> sm]
    ELSE [paths |-> Append(sp, path),
          monitors |-> Append(sm, GioMonitor(path, FLAGS[flags]))]

\* the loop of __init__ over os.walk
RECURSIVE add_walked(_, _, _)
add_walked(acc, found, flags) ==
    IF found = <<>> THEN acc
    ELSE add_walked(add_submonitor(acc.paths, acc.monitors, Head(found), flags),
                    Tail(found), flags)

init_subs(f, path, recursive, flags) ==
    IF recursive
    THEN add_walked([paths |-> <<>>, monitors |-> <<>>], walk(f, path), flags)
    ELSE [paths |-> <<>>, monitors |-> <<>>]

\* no path: every Gio.File.monitor call of a construction succeeds
NoPath == <<>>

\* the part of the walk done before Gio.File.monitor raises for path bad
RECURSIVE walked_before(_, _)
walked_before(found, bad) ==
    IF found = <<>> \/ Head(found) = bad THEN <<>>
    ELSE <<Head(found)>> \o walked_before(Tail(found), bad)

\* FileMonitor(path, recursive, flags, callback); Gio.File.monitor raises
\* GLib.Error for the path unopenable
Construct(m, path, recursive, flags, callback, unopenable) ==
    /\ UNCHANGED bt_vars
    /\ _monitor[m] = "none"
    /\ \A k \in Monitors : k < m => Constructed(k)
    /\ isdir(fs, path)
    /\ IF flags \notin DOMAIN FLAGS \/ unopenable = path
       THEN \* line 93 raises (KeyError of FLAGS[flags], or GLib.Error of
            \* monitor()) before anything is opened or stored
            /\ step' = [Did("__init__", m) EXCEPT
                          !.raised = IF flags \notin DOMAIN FLAGS
                                     THEN "KeyError" ELSE "GLib.Error"]
            /\ UNCHANGED <<fs, _monitor, _path, _flags, _callback, _recursive,
                           _sub_paths, _sub_monitors, file_monitors,
                           subscribers, queue>>
       ELSE IF recursive /\ unopenable \in Range(walk(fs, path))
       THEN \* line 128 raises inside the walk: __init__ is left at line 108
            \* with the root monitor and the monitors opened so far connected
            LET subs == add_walked([paths |-> <<>>, monitors |-> <<>>],
                                   walked_before(walk(fs, path), unopenable),
                                   flags)
            IN
            /\ _monitor' = [_monitor EXCEPT ![m] = "unowned"]
            /\ _path' = [_path EXCEPT ![m] = path]
            /\ _flags' = [_flags EXCEPT ![m] = flags]
            /\ _callback' = [_callback EXCEPT ![m] = callback]
            /\ _recursive' = [_recursive EXCEPT ![m] = recursive]
            /\ _sub_paths' = [_sub_paths EXCEPT ![m] = subs.paths]
            /\ _sub_monitors' = [_sub_monitors EXCEPT ![m] = subs.monitors]
            /\ step' = [Did("__init__", m) EXCEPT !.raised = "GLib.Error"]
            /\ UNCHANGED <<fs, file_monitors, subscribers, queue>>
       ELSE LET subs == init_subs(fs, path, recursive, flags) IN
            /\ _monitor' = [_monitor EXCEPT ![m] = "live"]
            /\ _path' = [_path EXCEPT ![m] = path]
            /\ _flags' = [_flags EXCEPT ![m] = flags]
            /\ _callback' = [_callback EXCEPT ![m] = callback]
            /\ _recursive' = [_recursive EXCEPT ![m] = recursive]
            /\ _sub_paths' = [_sub_paths EXCEPT ![m] = subs.paths]
            /\ _sub_monitors' = [_sub_monitors EXCEPT ![m] = subs.monitors]
            /\ file_monitors' = Append(file_monitors, m)
            /\ step' = Did("__init__", m)
            /\ UNCHANGED <<fs, subscribers, queue>>

\* the garbage collector frees an object whose __init__ raised: nothing
\* refers to it but its own Gio monitors, which are finalized with it
collect(m) ==
    /\ UNCHANGED bt_vars
    /\ _monitor[m] = "unowned"
    /\ _monitor' = [_monitor EXCEPT ![m] = "none"]
    /\ _path' = [_path EXCEPT ![m] = <<>>]
    /\ _flags' = [_flags EXCEPT ![m] = "None"]
    /\ _callback' = [_callback EXCEPT ![m] = "None"]
    /\ _recursive' = [_recursive EXCEPT ![m] = FALSE]
    /\ _sub_paths' = [_sub_paths EXCEPT ![m] = <<>>]
    /\ _sub_monitors' = [_sub_monitors EXCEPT ![m] = <<>>]
    /\ queue' = SelectSeq(queue, LAMBDA e : e.mon # m)
    /\ step' = NoStep
    /\ UNCHANGED <<fs, file_monitors, subscribers>>

\* a cancel that toggles the monitor instead of stopping it
cancel_root_toggle(st) == IF st = "cancelled" THEN "live" ELSE "cancelled"

\* what cancel() does to the root Gio monitor: Gio.FileMonitor.cancel()
cancel_root(st) == "cancelled"

\* FileMonitor.cancel()
cancel(m) ==
    /\ UNCHANGED bt_vars
    /\ Constructed(m)
    /\ _monitor' = [_monitor EXCEPT ![m] = cancel_root(_monitor[m])]
    /\ step' = Did("cancel", m)
    /\ UNCHANGED <<fs, _path, _flags, _callback, _recursive, _sub_paths,
                   _sub_monitors, file_monitors, subscribers, queue>>

\* a setter that also re-arms the root monitor
set_callback_rearms(m, value) ==
    /\ UNCHANGED bt_vars
    /\ Constructed(m)
    /\ _callback' = [_callback EXCEPT ![m] = value]
    /\ _monitor' = [_monitor EXCEPT ![m] = "live"]
    /\ step' = Did("set_callback", m)
    /\ UNCHANGED <<fs, _path, _flags, _recursive, _sub_paths,
                   _sub_monitors, file_monitors, subscribers, queue>>

\* callback.setter
set_callback(m, value) ==
    /\ UNCHANGED bt_vars
    /\ Constructed(m)
    /\ _callback' = [_callback EXCEPT ![m] = value]
    /\ step' = Did("set_callback", m)
    /\ UNCHANGED <<fs, _monitor, _path, _flags, _recursive, _sub_paths,
                   _sub_monitors, file_monitors, subscribers, queue>>

\* monitor.connect("changed", handler): handlers are numbered in connection order
connect_changed(m) ==
    /\ UNCHANGED bt_vars
    /\ Constructed(m)
    /\ Len(subscribers[m]) < MaxSubscribers
    /\ subscribers' = [subscribers EXCEPT ![m] = Append(@, Len(@) + 1)]
    /\ step' = NoStep
    /\ UNCHANGED <<fs, _monitor, _path, _flags, _callback, _recursive,
                   _sub_paths, _sub_monitors, file_monitors, queue>>

\* one call made while an event is handled: the callback or a "changed" handler
Call(who, id, path, kind, watched) ==
    [who |-> who, id |-> id, path |-> path, kind |-> kind, watched |-> watched]

\* self.emit("changed", path, kind): the handlers run in connection order
emit_changed(subs, path, kind, watched) ==
    [i \in 1..Len(subs) |-> Call("subscriber", subs[i], path, kind, watched)]

\* a handler that emits "changed" before it calls the callback
dispatch_emit_first(cb, subs, path, event_type, watched) ==
    IF cb = "None" \/ event_type \notin DOMAIN EVENT
    THEN [raised |-> IF cb = "None" THEN "none" ELSE "KeyError", trace |-> <<>>]
    ELSE [raised |-> IF cb = "raises" THEN "CallbackError" ELSE "none",
          trace |-> emit_changed(subs, path, EVENT[event_type], watched)
                    \o <<Call("callback", 0, path, EVENT[event_type], watched)>>]

\* lines 116-118 of __on_change: the calls made and the exception that ends them
dispatch(cb, subs, path, event_type, watched) ==
    IF cb = "None" THEN [raised |-> "none", trace |-> <<>>]
    ELSE IF event_type \notin DOMAIN EVENT
    THEN [raised |-> "KeyError", trace |-> <<>>]
    ELSE IF cb = "raises"
    THEN [raised |-> "CallbackError",
          trace |-> <<Call("callback", 0, path, EVENT[event_type], watched)>>]
    ELSE [raised |-> "none",
          trace |-> <<Call("callback", 0, path, EVENT[event_type], watched)>>
                    \o emit_changed(subs, path, EVENT[event_type], watched)]

\* a handler that registers directories whether or not it is recursive
registers_any(raised, recursive, f, path, event_type) ==
    raised = "none" /\ isdir(f, path)

\* lines 120-121 of __on_change: is __add_submonitor reached
registers(raised, recursive, f, path, event_type) ==
    raised = "none" /\ recursive /\ isdir(f, path)

\* FileMonitor.__on_change, run by the main loop for the oldest pending signal
\* opens: whether Gio.File.monitor (line 128) succeeds if it is called
on_change(m, opens) ==
    /\ UNCHANGED bt_vars
    /\ queue # <<>>
    /\ Head(queue).mon = m
    /\ Exists(m)
    /\ WatchLive(m, Head(queue).watch)
    /\ LET e == Head(queue)
           d == dispatch(_callback[m], subscribers[m], e.path, e.ev,
                         e.path \in Range(_sub_paths[m]))
           old == [paths |-> _sub_paths[m], monitors |-> _sub_monitors[m]]
           new == IF registers(d.raised, _recursive[m], fs, e.path, e.ev)
                  THEN add_submonitor(_sub_paths[m], _sub_monitors[m],
                                      e.path, _flags[m])
                  ELSE old
           \* line 128 raises before either list is appended to
           fails == new # old /\ ~opens
           subs == IF fails THEN old ELSE new
       IN  /\ opens \/ fails
           /\ _sub_paths' = [_sub_paths EXCEPT ![m] = subs.paths]
           /\ _sub_monitors' = [_sub_monitors EXCEPT ![m] = subs.monitors]
           /\ step' = [op |-> "on_change", mon |-> m,
                       before |-> _monitor[m], path |-> e.path,
                       ev |-> e.ev,
                       raised |-> IF fails THEN "GLib.Error" ELSE d.raised,
                       added |-> subs.paths # _sub_paths[m], trace |-> d.trace]
    /\ queue' = Tail(queue)
    /\ UNCHANGED <<fs, _monitor, _path, _flags, _callback, _recursive,
                   file_monitors, subscribers>>

\* Gio emits no "changed" signal for a monitor that has been cancelled
gio_discard ==
    /\ UNCHANGED bt_vars
    /\ queue # <<>>
    /\ ~WatchLive(Head(queue).mon, Head(queue).watch)
    /\ queue' = Tail(queue)
    /\ step' = NoStep
    /\ UNCHANGED <<fs, _monitor, _path, _flags, _callback, _recursive,
                   _sub_paths, _sub_monitors, file_monitors, subscribers>>

\* ------------------------------------------------------------ environment
\* the live Gio monitors that report a change of entry p: the monitor of the
\* directory holding p and, when self is set, the monitor of p itself
Reporting(p, self) ==
    {w \in Monitors \X (0..Cardinality(Paths)) :
        /\ w[2] \in LiveWatches(w[1])
        /\ \/ WatchPath(w[1], w[2]) = dirname(p)
           \/ self /\ WatchPath(w[1], w[2]) = p}

WatchKey(w) == w[1] * (Cardinality(Paths) + 1) + w[2]

RECURSIVE Signals(_, _, _)
Signals(W, p, ev) ==
    IF W = {} THEN <<>>
    ELSE LET w == CHOOSE x \in W : \A y \in W : WatchKey(x) <= WatchKey(y)
         IN  <<[mon |-> w[1], watch |-> w[2], path |-> p, ev |-> ev]>>
             \o Signals(W \ {w}, p, ev)

Report(p, ev, self) ==
    /\ UNCHANGED bt_vars
    /\ Len(queue) + Cardinality(Reporting(p, self)) <= MaxQueue
    /\ queue' = queue \o Signals(Reporting(p, self), p, ev)
    /\ step' = NoStep
    /\ UNCHANGED <<_monitor, _path, _flags, _callback, _recursive, _sub_paths,
                   _sub_monitors, file_monitors, subscribers>>

\* mkdir p or creat p
fs_create(p) ==
    /\ p \notin fs
    /\ isdir(fs, dirname(p))
    /\ fs' = fs \cup {p}
    /\ Report(p, "CREATED", FALSE)

\* write to a file
fs_write(p) ==
    /\ p \in fs
    /\ ~IsDirPath(p)
    /\ Reporting(p, FALSE) # {}
    /\ fs' = fs
    /\ Report(p, "CHANGED", FALSE)

\* chmod p
fs_chmod(p) ==
    /\ p \in fs
    /\ Reporting(p, TRUE) # {}
    /\ fs' = fs
    /\ Report(p, "ATTRIBUTE_CHANGED", TRUE)

\* unlink p or rmdir p
fs_remove(p) ==
    /\ p \in fs
    /\ p # Root
    /\ \A q \in fs : ~Under(p, q)
    /\ fs' = fs \ {p}
    /\ Report(p, "DELETED", TRUE)

\* a change Gio reports with a constant that EVENT does not list
fs_other(p) ==
    /\ p \in fs
    /\ Reporting(p, FALSE) # {}
    /\ fs' = fs
    /\ Report(p, UnknownEvent, FALSE)

\* ------------------------------------------------------------ specification
Next ==
    \/ \E m \in Monitors, path \in Paths, recursive \in BOOLEAN,
          flags \in FlagLiterals, callback \in Callbacks,
          unopenable \in Paths \cup {NoPath} :
            Construct(m, path, recursive, flags, callback, unopenable)
    \/ \E m \in Monitors : collect(m)
    \/ \E m \in Monitors : cancel(m)
    \/ \E m \in Monitors, value \in Callbacks : set_callback(m, value)
    \/ \E m \in Monitors : connect_changed(m)
    \/ \E m \in Monitors, opens \in BOOLEAN : on_change(m, opens)
    \/ gio_discard
    \/ \E p \in Paths : fs_create(p)
    \/ \E p \in Paths : fs_write(p)
    \/ \E p \in Paths : fs_chmod(p)
    \/ \E p \in Paths : fs_remove(p)
    \/ \E p \in Paths : fs_other(p)

Spec == Init /\ [][Next]_<<vars, bt_vars>>

TypeOK ==
    /\ WellFormedFs(fs)
    /\ \A m \in Monitors : Len(_sub_paths[m]) = Len(_sub_monitors[m])
    /\ Len(queue) <= MaxQueue

\* ------------------------------------------------------- BluetoothService
\* the D-Bus object paths of the devices the client can report
ObjectPathSeq == <<"/org/bluez/hci0/dev_A", "/org/bluez/hci0/dev_B",
                   "/org/bluez/hci0/dev_C">>
ObjectPaths == Range(ObjectPathSeq)

Signal(src, dev, name) == [src |-> src, dev |-> dev, name |-> name]

\* self._devices[path] = device
devices_with(devs, path, dev) ==
    [q \in DOMAIN devs \cup {path} |-> IF q = path THEN dev ELSE devs[q]]

\* a pop that leaves the dict as it is
devices_kept(devs, path) == devs

\* self._devices.pop(path)
devices_without(devs, path) == [q \in DOMAIN devs \ {path} |-> devs[q]]

\* the signals __add_device emits for the new device
added_signals(dev) ==
    <<Signal("service", dev, "device-added"), Signal("service", 0, "notify::devices")>>

\* the signals __remove_device emits
removed_signals(devs, path) ==
    IF path \notin DOMAIN devs THEN <<>>
    ELSE <<Signal("device", devs[path], "removed"),
           Signal("service", 0, "notify::connected-devices"),
           Signal("service", 0, "notify::devices")>>

\* BluetoothService.__add_device, run for the client's "device-added"
add_device(path) ==
    /\ bt_created < MaxDevices
    /\ bt_created' = bt_created + 1
    /\ _devices' = devices_with(_devices, path, bt_created + 1)
    /\ bt_present' = bt_present \cup {path}
    /\ bt_step' = [op |-> "add", path |-> path,
                   known |-> path \in DOMAIN _devices, dev |-> bt_created + 1,
                   before |-> _devices, emitted |-> added_signals(bt_created + 1)]
    /\ UNCHANGED vars

\* BluetoothService.__remove_device, run for the client's "device-removed"
remove_device(path) ==
    /\ _devices' = IF path \in DOMAIN _devices
                   THEN devices_without(_devices, path) ELSE _devices
    /\ bt_present' = bt_present \ {path}
    /\ bt_step' = [op |-> "remove", path |-> path,
                   known |-> path \in DOMAIN _devices,
                   dev |-> IF path \in DOMAIN _devices THEN _devices[path] ELSE 0,
                   before |-> _devices, emitted |-> removed_signals(_devices, path)]
    /\ UNCHANGED <<vars, bt_created>>

\* BluetoothService.__init__: one __add_device per device the client has
InitBT ==
    /\ fs = {Root}
    /\ _monitor = [m \in Monitors |-> "none"]
    /\ _path = [m \in Monitors |-> <<>>]
    /\ _flags = [m \in Monitors |-> "None"]
    /\ _callback = [m \in Monitors |-> "None"]
    /\ _recursive = [m \in Monitors |-> FALSE]
    /\ _sub_paths = [m \in Monitors |-> <<>>]
    /\ _sub_monitors = [m \in Monitors |-> <<>>]
    /\ file_monitors = <<>>
    /\ subscribers = [m \in Monitors |-> <<>>]
    /\ queue = <<>>
    /\ step = NoStep
    /\ \E k \in 0..Len(ObjectPathSeq) :
          /\ k <= MaxDevices
          /\ _devices = [q \in {ObjectPathSeq[i] : i \in 1..k} |->
                           CHOOSE i \in 1..k : ObjectPathSeq[i] = q]
          /\ bt_created = k
          /\ bt_present = {ObjectPathSeq[i] : i \in 1..k}
    /\ bt_step = [op |-> "idle", path |-> "", known |-> FALSE, dev |-> 0,
                  before |-> <<>>, emitted |-> <<>>]

NextBT ==
    \/ \E path \in ObjectPaths : add_device(path)
    \/ \E path \in ObjectPaths : remove_device(path)

SpecBT == InitBT /\ [][NextBT]_<<vars, bt_vars>>

\* ------------------------------------------------------------------ claims
Cancelled(m) == _monitor[m] = "cancelled"
Handled(m) == step.op = "on_change" /\ step.mon = m
Subdirs(f, path) == {p \in f : Under(path, p) /\ IsDirPath(p)}
Occurrences(s, x) == Cardinality({i \in 1..Len(s) : s[i] = x})
Notified(tr) == SelectSeq(tr, LAMBDA c : c.who = "subscriber")
NotifiedIds(tr) == [i \in 1..Len(Notified(tr)) |-> Notified(tr)[i].id]

\* C1: once cancel() has returned on a monitor, it owns no live watch (root
\* or subdirectory) and its list of subdirectory paths is empty, in every
\* later state.
C1_NoLiveWatchAfterCancel ==
    \A m \in Monitors :
        Cancelled(m) => LiveWatches(m) = {} /\ _sub_paths[m] = <<>>

\* C2: an event handled after cancel() has returned reaches neither the
\* callback nor any subscriber.
C2_NoDeliveryAfterCancel ==
    \A m \in Monitors : Handled(m) /\ Cancelled(m) => step.trace = <<>>

\* C3: cancel() on a cancelled monitor changes nothing of the monitor, and a
\* cancelled monitor stays cancelled whatever step is taken.
C3_CancelIdempotent ==
    [][\A m \in Monitors :
          Cancelled(m) =>
            /\ _monitor'[m] = "cancelled"
            /\ (step'.op = "cancel" /\ step'.mon = m) =>
                  UNCHANGED <<_monitor, _path, _flags, _callback, _recursive,
                              _sub_paths, _sub_monitors, file_monitors,
                              subscribers, queue>>]_vars

C3_Witness ==
    /\ step.op = "cancel"
    /\ step.before = "cancelled"
    /\ Cancelled(step.mon)

\* C4: a monitor is in the keep-alive list exactly when it has been
\* constructed and not cancelled.
C4_RegistryIffActive ==
    \A m \in Monitors : (m \in Range(file_monitors)) <=> (_monitor[m] = "live")

\* C5: right after a recursive monitor is constructed over a tree with N
\* subdirectories, it has N+1 live watches with pairwise distinct paths: the
\* root and each subdirectory.
C5_WalkCoversTree ==
    \A m \in Monitors :
        (step.op = "__init__" /\ step.mon = m /\ step.raised = "none"
            /\ _recursive[m]) =>
          /\ Cardinality(LiveWatches(m)) = Cardinality(Subdirs(fs, _path[m])) + 1
          /\ \A i, j \in LiveWatches(m) :
                i # j => WatchPath(m, i) # WatchPath(m, j)
          /\ {WatchPath(m, i) : i \in LiveWatches(m)}
                = {_path[m]} \cup Subdirs(fs, _path[m])

C5_Witness ==
    /\ step.op = "__init__"
    /\ step.raised = "none"
    /\ _recursive[step.mon]
    /\ _path[step.mon] = Root
    /\ Cardinality(Subdirs(fs, Root)) = 2
    /\ Len(_sub_monitors[step.mon]) = 2

\* C6: when an active recursive monitor has handled a Created event for a
\* directory, that directory has exactly one subdirectory watch.
C6_CreatedDirAddsOneWatch ==
    \A m \in Monitors :
        (Handled(m) /\ step.ev = "CREATED" /\ _monitor[m] = "live"
            /\ _recursive[m] /\ isdir(fs, step.path)) =>
          Occurrences(_sub_paths[m], step.path) = 1

\* C7: every event of a mapped kind handled by an active monitor is
\* delivered to every subscriber, in connection order, with or without a
\* callback.
C7_SubscribersAlwaysNotified ==
    \A m \in Monitors :
        (Handled(m) /\ step.ev \in DOMAIN EVENT /\ _monitor[m] = "live") =>
          /\ NotifiedIds(step.trace) = subscribers[m]
          /\ \A i \in 1..Len(Notified(step.trace)) :
                /\ Notified(step.trace)[i].path = step.path
                /\ Notified(step.trace)[i].kind = EVENT[step.ev]

\* C8: a subscriber is notified of an event only after the callback has been
\* called for it, and both get the path and the kind of the handled event.
C8_CallbackBeforeSubscribers ==
    \A m \in Monitors :
        Handled(m) =>
          \A i \in 1..Len(step.trace) :
            /\ step.trace[i].path = step.path
            /\ step.ev \in DOMAIN EVENT /\ step.trace[i].kind = EVENT[step.ev]
            /\ step.trace[i].who = "subscriber" =>
                  \E j \in 1..(i - 1) : step.trace[j].who = "callback"

C8_Witness ==
    /\ step.op = "on_change"
    /\ Len(step.trace) = 3
    /\ step.trace[1].who = "callback"
    /\ step.trace[2].who = "subscriber"
    /\ step.trace[3].who = "subscriber"

\* C9: an event whose native kind is not one of the eleven known constants
\* is dropped: no error, no callback, no subscriber, no change of the watches.
C9_UnknownDroppedSilently ==
    \A m \in Monitors :
        (Handled(m) /\ step.ev \notin DOMAIN EVENT) =>
          step.raised = "none" /\ step.trace = <<>> /\ ~step.added

\* C10: when the callback raises, the handler raises nothing, every
\* subscriber still gets the event and a directory still gets its watch.
C10_CallbackFailureIsolated ==
    \A m \in Monitors :
        (Handled(m) /\ step.ev \in DOMAIN EVENT /\ _callback[m] = "raises") =>
          /\ step.raised = "none"
          /\ NotifiedIds(step.trace) = subscribers[m]
          /\ (_recursive[m] /\ isdir(fs, step.path)) =>
                step.path \in Range(_sub_paths[m])

\* C11: under an active recursive monitor an event for a path that is not a
\* directory adds no watch, and every handled event is delivered, to the
\* callback when one is set and to every subscriber, with the path of the
\* affected entry.
C11_FilesNotWatchedEntryPathDelivered ==
    \A m \in Monitors :
        (Handled(m) /\ step.ev \in DOMAIN EVENT /\ _monitor[m] = "live"
            /\ _recursive[m]) =>
          /\ ~isdir(fs, step.path) => ~step.added
          /\ \A i \in 1..Len(step.trace) : step.trace[i].path = step.path
          /\ _callback[m] # "None" =>
                \E i \in 1..Len(step.trace) : step.trace[i].who = "callback"
          /\ NotifiedIds(step.trace) = subscribers[m]

\* C12: path, flags and recursive keep their construction values in every
\* step, and assigning callback, on an active or a cancelled monitor, changes
\* nothing but the callback.
C12_ConfigReadOnly ==
    [][\A m \in Monitors :
          Constructed(m) =>
            /\ _path'[m] = _path[m]
            /\ _flags'[m] = _flags[m]
            /\ _recursive'[m] = _recursive[m]
            /\ (step'.op = "set_callback" /\ step'.mon = m) =>
                  UNCHANGED <<_monitor, _sub_paths, _sub_monitors,
                              file_monitors, subscribers, queue, fs>>]_vars

C12_Witness ==
    /\ step.op = "set_callback"
    /\ step.before = "cancelled"
    /\ Cancelled(step.mon)
    /\ _callback[step.mon] = "returns"
    /\ _flags[step.mon] = "watch_moves"
    /\ _sub_paths[step.mon] # <<>>

\* C13: the root path is never in the list of subdirectory paths and no two
\* watches of a monitor, the root watch included, have the same path.
C13_RootNotSubdirectory ==
    \A m \in Monitors :
        Constructed(m) =>
          /\ _path[m] \notin Range(_sub_paths[m])
          /\ \A i, j \in Watches(m) :
                i # j => WatchPath(m, i) # WatchPath(m, j)

\* C14: an event adds a subdirectory watch only when the monitor is
\* recursive and not cancelled, the kind is Created and the path is a
\* directory.
C14_OnlyCreatedAddsWatch ==
    \A m \in Monitors :
        (Handled(m) /\ step.added) =>
          /\ _recursive[m]
          /\ step.before = "live"
          /\ step.ev = "CREATED"
          /\ isdir(fs, step.path)

\* C15: when an active recursive monitor handles a Created event for a
\* directory, the directory is already in the list of subdirectory paths
\* when the callback and each subscriber are called.
C15_RegisteredBeforeDelivery ==
    \A m \in Monitors :
        (Handled(m) /\ step.ev = "CREATED" /\ _monitor[m] = "live"
            /\ _recursive[m] /\ isdir(fs, step.path)) =>
          \A i \in 1..Len(step.trace) : step.trace[i].watched

\* C16: while a monitor is active no step removes or releases one of its
\* watches, and every subdirectory path is a directory path strictly below
\* the root.
C16_WatchesOnlyGrow ==
    [][\A m \in Monitors :
          /\ (_monitor[m] = "live" /\ _monitor'[m] = "live") =>
                /\ Len(_sub_monitors'[m]) >= Len(_sub_monitors[m])
                /\ SubSeq(_sub_monitors'[m], 1, Len(_sub_monitors[m]))
                      = _sub_monitors[m]
                /\ SubSeq(_sub_paths'[m], 1, Len(_sub_paths[m])) = _sub_paths[m]
          /\ \A p \in Range(_sub_paths'[m]) :
                Under(_path'[m], p) /\ IsDirPath(p)]_vars

\* C17: a monitor constructed with recursive = False never has a
\* subdirectory watch: while it is active its only live watch is the root's.
C17_NonRecursiveOneWatch ==
    \A m \in Monitors :
        (Constructed(m) /\ ~_recursive[m]) =>
          /\ _sub_paths[m] = <<>>
          /\ _sub_monitors[m] = <<>>
          /\ _monitor[m] = "live" => LiveWatches(m) = {0}

C17_Witness ==
    /\ step.op = "on_change"
    /\ ~_recursive[step.mon]
    /\ _monitor[step.mon] = "live"
    /\ step.ev = "CREATED"
    /\ step.raised = "none"
    /\ isdir(fs, step.path)
    /\ dirname(step.path) = _path[step.mon]

\* C18: a construction that raises leaves nothing behind: the object is not
\* in file_monitors and none of the Gio monitors it opened is live.
C18_FailedConstructionLeavesNothing ==
    \A m \in Monitors :
        (step.op = "__init__" /\ step.mon = m /\ step.raised # "none") =>
          /\ m \notin Range(file_monitors)
          /\ LiveWatches(m) = {}

\* C20: _sub_paths and _sub_monitors have the same length, the i-th monitor
\* watches the i-th path, and no path occurs twice.
C20_SubListsAligned ==
    \A m \in Monitors :
        /\ Len(_sub_paths[m]) = Len(_sub_monitors[m])
        /\ \A i \in 1..Len(_sub_paths[m]) :
              /\ i <= Len(_sub_monitors[m])
              /\ _sub_monitors[m][i].path = _sub_paths[m][i]
        /\ \A p \in Paths : Occurrences(_sub_paths[m], p) <= 1

C20_Witness ==
    /\ step.op = "on_change"
    /\ step.added
    /\ Len(_sub_paths[step.mon]) = 2
    /\ Len(_sub_monitors[step.mon]) = 2

\* C19: the object paths in _devices are the paths added and not removed
\* since; a device-removed signal for an unknown path changes nothing and
\* emits nothing; one for a known path removes exactly that entry and emits
\* "removed" once, on the device that was stored for the path.
C19_DeviceRegistry ==
    /\ DOMAIN _devices = bt_present
    /\ (bt_step.op = "remove" /\ ~bt_step.known) =>
          _devices = bt_step.before /\ bt_step.emitted = <<>>
    /\ (bt_step.op = "remove" /\ bt_step.known) =>
          /\ DOMAIN _devices = DOMAIN bt_step.before \ {bt_step.path}
          /\ \A q \in DOMAIN _devices : _devices[q] = bt_step.before[q]
          /\ Cardinality({i \in 1..Len(bt_step.emitted) :
                            bt_step.emitted[i].name = "removed"}) = 1
          /\ \A i \in 1..Len(bt_step.emitted) :
                bt_step.emitted[i].name = "removed" =>
                  bt_step.emitted[i].dev = bt_step.before[bt_step.path]

C19_Witness ==
    /\ bt_step.op = "remove"
    /\ bt_step.known
    /\ bt_step.dev = 4
    /\ Cardinality(DOMAIN _devices) = 2

====
